---- MODULE Spec2Model ----
(***************************************************************************)
(* Model of the switch-request admission and queueing engine of bot.py:   *)
(* the module-level switch_queue and player_list_cache, the command       *)
(* handlers (_handle_players_list, switch_command / handle_command with   *)
(* _attempt_switch_in_rcon) and the background task process_switch_queue. *)
(*                                                                         *)
(* The program runs on one asyncio event loop: a coroutine runs without   *)
(* interruption between two awaits.  Every action below is the code from  *)
(* the completion of one await up to the next await that suspends the     *)
(* coroutine; the remote answers (rosters, headcounts, switch results,    *)
(* transport errors, delivery of a message) are inputs drawn with \E.     *)
(* Awaiting the send of a message is folded into the step that starts it  *)
(* whenever no shared state is touched after the send.                    *)
(*                                                                         *)
(* Team values are sequences of one-character strings so that strip(),    *)
(* lower() and startswith() of _normalize_team are computed, not assumed. *)
(* Player ids and names are already-trimmed tokens.                       *)
(***************************************************************************)
EXTENDS Integers, Sequences, FiniteSets, TLC

\* ------------------------------------------------------------------ bounds
\* Commands (switch or listing) accepted in one run of the whole program.
MaxRequests == 2
\* Commands accepted in one run of the listing and switch handlers alone.
MaxCommands == 2
\* Commands accepted in one run of a single handler, one command after another.
MaxSequential == 3
\* Items waiting in the queue when the drain of the queue is observed.
MaxWaiting == 2
\* Switch commands accepted while the queue drains.
MaxLate == 1
\* Switch commands accepted in one run of the switch handlers and the queue loop.
MaxSwitches == 2
\* Largest player number a switch command is tried with.
MaxNumber == 3
\* Switch commands accepted in one run against backends whose game is tracked.
MaxTracked == 2

\* ------------------------------------------------------- program constants
MAX_QUEUE_SIZE == 10

\* ---------------------------------------------------------------- strings
AXIS == <<"a", "x", "i", "s">>
ALLIES == <<"a", "l", "l", "i", "e", "s">>
ALL == <<"a", "l", "l">>
BOTH == <<"b", "o", "t", "h">>
ALLY == <<"a", "l", "l", "y">>
EMPTY == <<>>

UpperChars == <<"A", "B", "C", "D", "E", "F", "G", "H", "I", "J", "K", "L", "M",
                "N", "O", "P", "Q", "R", "S", "T", "U", "V", "W", "X", "Y", "Z">>
LowerChars == <<"a", "b", "c", "d", "e", "f", "g", "h", "i", "j", "k", "l", "m",
                "n", "o", "p", "q", "r", "s", "t", "u", "v", "w", "x", "y", "z">>

\* str.lower()
Lower(s) ==
  [i \in 1..Len(s) |->
     IF \E k \in 1..26 : UpperChars[k] = s[i]
     THEN LowerChars[CHOOSE k \in 1..26 : UpperChars[k] = s[i]]
     ELSE s[i]]

\* str.strip()
RECURSIVE LStrip(_)
LStrip(s) == IF s # <<>> /\ Head(s) = " " THEN LStrip(Tail(s)) ELSE s

RECURSIVE RStrip(_)
RStrip(s) ==
  IF s # <<>> /\ s[Len(s)] = " " THEN RStrip(SubSeq(s, 1, Len(s) - 1)) ELSE s

Strip(s) == RStrip(LStrip(s))

\* str.startswith()
StartsWith(s, prefix) ==
  Len(s) >= Len(prefix) /\ SubSeq(s, 1, Len(prefix)) = prefix

\* _normalize_team; None and '' are both the empty sequence.
NormalizeTeam(team_value) ==
  LET normalized == Lower(Strip(team_value)) IN
  IF StartsWith(normalized, AXIS) THEN AXIS
  ELSE IF StartsWith(normalized, ALL) \/ StartsWith(normalized, ALLY) THEN ALLIES
  ELSE normalized

\* ------------------------------------------------------------ environment
\* self.api_clients, in registry order.
api_clients == <<"A", "B">>

\* Requester identities (str(message.author.id)).
Users == {"u1"}

\* Command handlers that the chat layer may run concurrently.
Handlers == {"h1", "h2"}

Numbers == 1..MaxNumber

\* Rosters a backend may answer with: a players map is a sequence (dicts keep
\* insertion order) of key / pdata pairs.  pdata.player_id stands for the
\* id-bearing fields, "" when the record has none.
Player(key, player_id, name, team) ==
  [key |-> key, pdata |-> [player_id |-> player_id, name |-> name, team |-> team]]

RosterOne == <<Player("p1", "p1", "n1", <<"A", "l", "l", "i", "e", "s">>)>>
RosterTwo == <<Player("p1", "p1", "n1", <<"a", "x", "i", "s", " ">>),
               Player("p2", "p2", "n2", ALLIES)>>
RosterOdd == <<Player("k3", "", "n1", EMPTY),
               Player("k4", "p2", "n2", <<"n", "o", "n", "e">>),
               Player("p5", "p5", "n5", <<" ">>)>>
RosterThree == <<Player("p1", "p1", "n1", <<"A", "l", "l", "i", "e", "s">>),
                 Player("p2", "p2", "n2", AXIS),
                 Player("p3", "p3", "n3", <<"A", "L", "L", "I", "E", "S">>)>>

Rosters == {RosterOne, RosterTwo, RosterOdd, RosterThree}

\* get_detailed_players answers: {'result': {'players': {...}}} or something
\* that is not of that shape.
RosterResponses ==
  {[dict |-> TRUE, players |-> r] : r \in Rosters} \cup {[dict |-> FALSE, players |-> <<>>]}

\* Headcounts a backend may report: the two sides of the threshold.
HeadCounts == {49, 50}

\* get_gamestate answers.
Gamestates ==
  {[num_allied_players |-> a, num_axis_players |-> x] : a \in HeadCounts, x \in HeadCounts}

\* switch_player_now answers.
SwitchResponses == {[result |-> r, failed |-> f] : r \in BOOLEAN, f \in BOOLEAN}

\* A backend whose game the run does not track: its answers are left open.
Untracked ==
  [c \in {"A", "B"} |->
     [tracked |-> FALSE, players |-> <<>>, num_allied_players |-> 0,
      num_axis_players |-> 0]]

\* ---------------------------------------------------------------- helpers
\* _extract_players_map
ExtractPlayersMap(players_response) ==
  IF ~players_response.dict THEN <<>> ELSE players_response.players

NoneFound == [found_id |-> "", pdata |-> [none |-> TRUE]]

\* _find_player_by_id_or_name: the key, then the id-bearing fields in map
\* order, then the name in map order.
FindPlayerByIdOrName(players_map, player_id, player_name) ==
  LET idx == 1..Len(players_map)
      byKey == {i \in idx : players_map[i].key = player_id}
      byField == {i \in idx : players_map[i].pdata.player_id = player_id}
      byName == {i \in idx : players_map[i].pdata.name = player_name}
      First(S) == CHOOSE i \in S : \A j \in S : i <= j
      Hit(i) == [found_id |-> players_map[i].key, pdata |-> players_map[i].pdata]
  IN  IF byKey # {} THEN Hit(First(byKey))
      ELSE IF byField # {} THEN Hit(First(byField))
      ELSE IF player_name # "" /\ byName # {} THEN Hit(First(byName))
      ELSE NoneFound

\* _format_player_display_name
FormatPlayerDisplayName(pdata) ==
  IF pdata.name # "" THEN pdata.name
  ELSE IF pdata.player_id # "" THEN pdata.player_id
  ELSE "unknown"

\* _resolve_player_id_from_pdata ... or ''
ResolvePlayerIdFromPdata(pdata) == pdata.player_id

\* The decision of _attempt_switch_in_rcon on the fetched headcount.
AttemptAdmits(target_team_players) == target_team_players < 50

\* Mutant of QueueAdmits: <= for <.
QueueAdmitsAtFifty(target_team_players) == target_team_players <= 50

\* Mutant of QueueAdmits: the loop admits whatever the headcount.
QueueAdmitsAlways(target_team_players) == TRUE

\* The decision of process_switch_queue on the fetched headcount.
QueueAdmits(target_team_players) == target_team_players < 50

\* target_team_players = num_axis_players if target_team == 'axis' else num_allied_players
TargetTeamPlayers(gamestate, target_team) ==
  IF target_team = AXIS THEN gamestate.num_axis_players ELSE gamestate.num_allied_players

\* target_team = 'axis' if player_team == 'allies' else 'allies'
TargetTeam(player_team) == IF player_team = ALLIES THEN AXIS ELSE ALLIES

\* Mutant of SwitchSucceeded: the failed flag is not read.
SwitchSucceededIgnoresFlag(response) == response.result = TRUE

\* response.get('result') is True and not response.get('failed')
SwitchSucceeded(response) == response.result = TRUE /\ ~response.failed

\* ------------------------------------------------------------------ state
VARIABLES
  switch_queue,       \* the deque of queued switches, oldest first
  player_list_cache,  \* player_list_cache['entries']: number -> entry
  channel,            \* process_switch_queue's channel: TRUE, or FALSE for None
  next_uid,           \* identity of the next queue item object to be created
  budget,             \* commands the run still accepts
  hpc,                \* per handler: "idle", "gamestate", "switch", "list"
  hloc,               \* per handler: the locals of the running command
  qpc,                \* process_switch_queue: "sleep", "resolve", "notify_gone",
                      \* "gamestate", "switch", "notify"
  qloc,               \* the locals of the running cycle
  replaced,           \* the numbers of the entries the latest listing discarded
  rpc,                \* the remote call answered in the last step, if any
  sent,               \* the message the last step passed to send, "none" if none
  header_count,       \* the count in the header the last step sent, 0 if none
  game,               \* the backends: their roster and headcounts when the run
                      \* tracks them, Untracked when every answer is left open
  fault               \* how an exception of the last step ended: "none",
                      \* "caught" (the except of the loop), "unhandled"

vars == <<switch_queue, player_list_cache, channel, next_uid, budget,
          hpc, hloc, qpc, qloc, replaced, rpc, sent, header_count, game,
          fault>>

NoItem ==
  [uid |-> 0, player_id |-> "", player_name |-> "", target_team |-> EMPTY,
   discord_id |-> ""]

NoLocals ==
  [rcon_client |-> "", player_id |-> "", player_name |-> "", target_team |-> EMPTY,
   discord_id |-> "", player_number |-> 0, team_filter |-> EMPTY,
   current_index |-> 0, i |-> 0]

\* raised: a remote call of the running cycle has raised (the cycle's log).
NoCycle ==
  [item |-> NoItem, i |-> 0, client |-> "", success |-> FALSE, raised |-> FALSE]

NoCall == [op |-> "none", client |-> "", arg |-> "", raised |-> FALSE]

\* A remote call (asyncio.to_thread on the APIClient) that raised.
Raised(op, client, arg) == [op |-> op, client |-> client, arg |-> arg, raised |-> TRUE]

\* A remote call that returned result.
Answered(op, client, arg, result) ==
  [op |-> op, client |-> client, arg |-> arg, raised |-> FALSE, result |-> result]

NoEntries == [k \in {} |-> NoLocals]

\* What get_detailed_players of a backend may answer.
RosterAnswers(client) ==
  IF game[client].tracked
  THEN {[dict |-> TRUE, players |-> game[client].players]}
  ELSE RosterResponses

\* What get_gamestate of a backend may answer.
GamestateAnswers(client) ==
  IF game[client].tracked
  THEN {[num_allied_players |-> game[client].num_allied_players,
         num_axis_players |-> game[client].num_axis_players]}
  ELSE Gamestates

\* The backends after client carried out switch_player_now(player_id) and
\* answered response: a switch the backend reports as done has moved the
\* player to the other faction, whatever the headcount of that faction.
Switched(client, player_id, response) ==
  LET b == game[client]
      at == {k \in 1..Len(b.players) : b.players[k].key = player_id}
  IN  IF ~b.tracked \/ at = {} \/ ~(response.result = TRUE /\ ~response.failed)
      THEN game
      ELSE LET k == CHOOSE k \in at : TRUE
               to_axis == NormalizeTeam(b.players[k].pdata.team) # AXIS
               d == IF to_axis THEN 1 ELSE -1
           IN  [game EXCEPT
                  ![client].players[k].pdata.team = IF to_axis THEN AXIS ELSE ALLIES,
                  ![client].num_axis_players = b.num_axis_players + d,
                  ![client].num_allied_players = b.num_allied_players - d]

\* The faction the roster of a tracked backend has player_id on, normalised;
\* EMPTY when the player is not on that backend.
TeamOn(backend, player_id) ==
  LET players == backend.players
      at == {k \in 1..Len(players) : players[k].key = player_id}
  IN  IF at = {} THEN EMPTY
      ELSE NormalizeTeam(players[CHOOSE k \in at : TRUE].pdata.team)

CurrentTeam(client, player_id) == TeamOn(game[client], player_id)

\* Everything but the queue, the cache and the budget right after construction.
Fresh ==
  /\ channel \in BOOLEAN
  /\ hpc = [h \in Handlers |-> "idle"]
  /\ hloc = [h \in Handlers |-> NoLocals]
  /\ qpc = "sleep"
  /\ qloc = NoCycle
  /\ replaced = {}
  /\ rpc = NoCall
  /\ sent = "none"
  /\ header_count = 0
  /\ fault = "none"

\* The program right after construction.
Init ==
  /\ switch_queue = <<>>
  /\ player_list_cache = NoEntries
  /\ next_uid = 1
  /\ budget = MaxRequests
  /\ game = Untracked
  /\ Fresh

\* A handler's send_func(lang[key]): delivered, or the send raises out of
\* the handler.
Reply(key, delivered) ==
  /\ sent' = key
  /\ fault' = IF delivered THEN "none" ELSE "unhandled"

\* The handler's command is over (returned or raised).
Finish(h) ==
  /\ hpc' = [hpc EXCEPT ![h] = "idle"]
  /\ hloc' = [hloc EXCEPT ![h] = NoLocals]

\* --------------------------------------------------------------- the queue
\* Mutant of QueueFull: the bound tested one item late.
QueueFullOffByOne(queue) == Len(queue) > MAX_QUEUE_SIZE

\* len(switch_queue) >= MAX_QUEUE_SIZE
QueueFull(queue) == Len(queue) >= MAX_QUEUE_SIZE

\* Mutant of Enqueue: appendleft() for append().
EnqueueFront(queue, item) == <<item>> \o queue

\* switch_queue.append(item)
Enqueue(queue, item) == Append(queue, item)

\* Mutant of PopLeft: pop() for popleft().
PopRight(queue) == SubSeq(queue, 1, Len(queue) - 1)

\* Mutant of PopLeft: nothing is removed.
PopNothing(queue) == queue

\* switch_queue.popleft()
PopLeft(queue) == Tail(queue)

\* ------------------------------------------------- switch-by-number command
\* Mutant of HSwitchCmd: the check of the cached player id is left out.
HSwitchCmdSkipsIdCheck(h) ==
  /\ hpc[h] = "idle"
  /\ header_count' = 0
  /\ UNCHANGED game
  /\ budget > 0
  /\ budget' = budget - 1
  /\ rpc' = NoCall
  /\ UNCHANGED <<switch_queue, player_list_cache, channel, next_uid, qpc, qloc,
                 replaced>>
  /\ \E player_number \in Numbers, user \in Users, delivered \in BOOLEAN :
       IF player_number \notin DOMAIN player_list_cache
       THEN Reply("players_list_missing_number", delivered) /\ Finish(h)
       ELSE LET entry == player_list_cache[player_number] IN
            IF entry.team = EMPTY
            THEN Reply("player_not_in_game", delivered) /\ Finish(h)
            ELSE /\ hpc' = [hpc EXCEPT ![h] = "gamestate"]
                 /\ hloc' = [hloc EXCEPT ![h] =
                      [NoLocals EXCEPT !.rcon_client = entry.api_client,
                                       !.player_id = entry.player_id,
                                       !.player_name = entry.player_name,
                                       !.target_team = TargetTeam(entry.team),
                                       !.discord_id = user,
                                       !.player_number = player_number]]
                 /\ sent' = "none"
                 /\ fault' = "none"

\* switch_command / handle_command up to the first remote call of
\* _attempt_switch_in_rcon.
HSwitchCmd(h) ==
  /\ hpc[h] = "idle"
  /\ header_count' = 0
  /\ UNCHANGED game
  /\ budget > 0
  /\ budget' = budget - 1
  /\ rpc' = NoCall
  /\ UNCHANGED <<switch_queue, player_list_cache, channel, next_uid, qpc, qloc,
                 replaced>>
  /\ \E player_number \in Numbers, user \in Users, delivered \in BOOLEAN :
       IF player_number \notin DOMAIN player_list_cache
       THEN Reply("players_list_missing_number", delivered) /\ Finish(h)
       ELSE LET entry == player_list_cache[player_number] IN
            IF entry.player_id = ""
            THEN Reply("players_list_missing_id", delivered) /\ Finish(h)
            ELSE IF entry.team = EMPTY
            THEN Reply("player_not_in_game", delivered) /\ Finish(h)
            ELSE /\ hpc' = [hpc EXCEPT ![h] = "gamestate"]
                 /\ hloc' = [hloc EXCEPT ![h] =
                      [NoLocals EXCEPT !.rcon_client = entry.api_client,
                                       !.player_id = entry.player_id,
                                       !.player_name = entry.player_name,
                                       !.target_team = TargetTeam(entry.team),
                                       !.discord_id = user,
                                       !.player_number = player_number]]
                 /\ sent' = "none"
                 /\ fault' = "none"

\* _attempt_switch_in_rcon from the answer of get_gamestate on: the capacity
\* decision and, on Defer, the bounded enqueue with its reply.
HGamestate(h) ==
  /\ hpc[h] = "gamestate"
  /\ header_count' = 0
  /\ UNCHANGED game
  /\ UNCHANGED <<player_list_cache, channel, budget, qpc, qloc, replaced>>
  /\ \/ /\ rpc' = Raised("get_gamestate", hloc[h].rcon_client, "")
        /\ sent' = "none"
        /\ fault' = "unhandled"
        /\ Finish(h)
        /\ UNCHANGED <<switch_queue, next_uid>>
     \/ \E gamestate \in GamestateAnswers(hloc[h].rcon_client), delivered \in BOOLEAN :
          /\ rpc' = Answered("get_gamestate", hloc[h].rcon_client, "", gamestate)
          /\ IF AttemptAdmits(TargetTeamPlayers(gamestate, hloc[h].target_team))
             THEN /\ hpc' = [hpc EXCEPT ![h] = "switch"]
                  /\ sent' = "none"
                  /\ fault' = "none"
                  /\ UNCHANGED <<hloc, switch_queue, next_uid>>
             ELSE IF QueueFull(switch_queue)
             THEN /\ Reply("queue_full", delivered)
                  /\ Finish(h)
                  /\ UNCHANGED <<switch_queue, next_uid>>
             ELSE /\ switch_queue' = Enqueue(switch_queue,
                       [uid |-> next_uid,
                        player_id |-> hloc[h].player_id,
                        player_name |-> hloc[h].player_name,
                        target_team |-> hloc[h].target_team,
                        discord_id |-> hloc[h].discord_id])
                  /\ next_uid' = next_uid + 1
                  /\ Reply("added_to_queue", delivered)
                  /\ Finish(h)

\* _attempt_switch_in_rcon from the answer of switch_player_now on.
HSwitch(h) ==
  /\ hpc[h] = "switch"
  /\ header_count' = 0
  /\ UNCHANGED <<switch_queue, player_list_cache, channel, next_uid, budget,
                 qpc, qloc, replaced>>
  /\ Finish(h)
  /\ \/ /\ rpc' = Raised("switch_player_now", hloc[h].rcon_client, hloc[h].player_id)
        /\ sent' = "none"
        /\ fault' = "unhandled"
        /\ UNCHANGED game
     \/ \E response \in SwitchResponses, delivered \in BOOLEAN :
          /\ rpc' = Answered("switch_player_now", hloc[h].rcon_client, hloc[h].player_id,
                          response)
          /\ game' = Switched(hloc[h].rcon_client, hloc[h].player_id, response)
          /\ IF SwitchSucceeded(response)
             THEN Reply("switch_request_success", delivered)
             ELSE Reply("switch_request_failure", delivered)

\* ---------------------------------------------------------- listing command
FilterArgs == {AXIS, ALLIES, EMPTY, ALL, BOTH, <<"x">>}

\* _handle_players_list up to the first roster fetch: the filter is
\* validated and the cache is emptied.
HPlayersCmd(h) ==
  /\ hpc[h] = "idle"
  /\ header_count' = 0
  /\ UNCHANGED game
  /\ budget > 0
  /\ budget' = budget - 1
  /\ rpc' = NoCall
  /\ UNCHANGED <<switch_queue, channel, next_uid, qpc, qloc>>
  /\ \E filter_arg \in FilterArgs, delivered \in BOOLEAN :
       IF filter_arg \notin {AXIS, ALLIES, EMPTY, ALL, BOTH}
       THEN /\ Reply("invalid_team_filter", delivered)
            /\ Finish(h)
            /\ UNCHANGED <<player_list_cache, replaced>>
       ELSE IF api_clients = <<>>
       THEN /\ Reply("rcon_not_configured", delivered)
            /\ Finish(h)
            /\ UNCHANGED <<player_list_cache, replaced>>
       ELSE /\ player_list_cache' = NoEntries
            /\ replaced' = DOMAIN player_list_cache
            /\ hpc' = [hpc EXCEPT ![h] = "list"]
            /\ hloc' = [hloc EXCEPT ![h] =
                 [NoLocals EXCEPT
                    !.team_filter = IF filter_arg \in {AXIS, ALLIES}
                                    THEN filter_arg ELSE EMPTY,
                    !.current_index = 0,
                    !.i = 1]]
            /\ sent' = "none"
            /\ fault' = "none"

\* Mutant of FilteredPlayers: the filter is not applied.
FilteredPlayersUnfiltered(players_map, team_filter) == players_map

\* The players of one roster that pass the filter, in map order.
FilteredPlayers(players_map, team_filter) ==
  SelectSeq(players_map,
            LAMBDA p : team_filter = EMPTY \/ NormalizeTeam(p.pdata.team) = team_filter)

\* player_list_cache['entries'][current_index] = {...}
CacheEntry(api_client, pdata) ==
  [api_client |-> api_client,
   player_id |-> ResolvePlayerIdFromPdata(pdata),
   player_name |-> FormatPlayerDisplayName(pdata),
   team |-> NormalizeTeam(pdata.team)]

\* The cache after the entries of one backend are written from current_index on.
WriteEntries(entries, api_client, filtered_players, current_index) ==
  LET new == (current_index + 1)..(current_index + Len(filtered_players)) IN
  [k \in DOMAIN entries \cup new |->
     IF k \in new
     THEN CacheEntry(api_client, filtered_players[k - current_index].pdata)
     ELSE entries[k]]

\* The for loop of _handle_players_list goes on to the next backend or ends.
ListContinue(h, current_index) ==
  IF hloc[h].i = Len(api_clients)
  THEN Finish(h)
  ELSE /\ hloc' = [hloc EXCEPT ![h].i = hloc[h].i + 1,
                               ![h].current_index = current_index]
       /\ UNCHANGED hpc

\* One iteration of the for loop of _handle_players_list, from the answer of
\* get_detailed_players to the send of that backend's block.
HListFetch(h) ==
  /\ hpc[h] = "list"
  /\ UNCHANGED <<switch_queue, channel, next_uid, budget, qpc, qloc, replaced,
                 game>>
  /\ LET api_client == api_clients[hloc[h].i] IN
     \/ \E delivered \in BOOLEAN :
          /\ rpc' = Raised("get_detailed_players", api_client, "")
          /\ Reply("players_list_failure", delivered)
          /\ header_count' = 0
          /\ UNCHANGED player_list_cache
          /\ IF delivered THEN ListContinue(h, hloc[h].current_index) ELSE Finish(h)
     \/ \E players_response \in RosterAnswers(api_client), delivered \in BOOLEAN :
          LET filtered_players ==
                FilteredPlayers(ExtractPlayersMap(players_response), hloc[h].team_filter)
          IN  /\ rpc' = Answered("get_detailed_players", api_client, "", players_response)
              /\ player_list_cache' =
                   WriteEntries(player_list_cache, api_client, filtered_players,
                                hloc[h].current_index)
              /\ Reply("players_list_header", delivered)
              /\ header_count' = Len(filtered_players)
              /\ IF delivered
                 THEN ListContinue(h, hloc[h].current_index + Len(filtered_players))
                 ELSE Finish(h)

\* ------------------------------------------------------ process_switch_queue
\* The cycle is over: the loop is at its sleep, the locals are dead.
CycleEnds ==
  /\ qpc' = "sleep"
  /\ qloc' = NoCycle

\* Mutant of QExcept: the except logs and leaves the head in place.
QExceptKeepsHead ==
  /\ fault' = "caught"
  /\ UNCHANGED switch_queue
  /\ CycleEnds

\* except Exception: log, switch_queue.popleft(); then the sleep of the loop.
QExcept ==
  /\ fault' = "caught"
  /\ switch_queue' = PopLeft(switch_queue)
  /\ CycleEnds

\* Mutant of QGone: the abandoned head is put back at the tail.
QGoneRequeues(raised) ==
  /\ fault' = "none"
  /\ sent' = "none"
  /\ switch_queue' = Append(PopLeft(switch_queue), switch_queue[1])
  /\ CycleEnds

\* The player is on no backend: with a channel the message is sent first,
\* without one the head is popped at once.
QGone(raised) ==
  /\ fault' = "none"
  /\ sent' = "none"
  /\ IF channel
     THEN /\ qpc' = "notify_gone"
          /\ qloc' = [qloc EXCEPT !.raised = qloc.raised \/ raised]
          /\ UNCHANGED switch_queue
     ELSE /\ switch_queue' = PopLeft(switch_queue)
          /\ CycleEnds

\* An iteration of the loop that finds the queue empty.
QIdle ==
  /\ qpc = "sleep"
  /\ header_count' = 0
  /\ UNCHANGED game
  /\ switch_queue = <<>>
  /\ rpc' = NoCall
  /\ sent' = "none"
  /\ fault' = "none"
  /\ UNCHANGED <<switch_queue, player_list_cache, channel, next_uid, budget,
                 hpc, hloc, qpc, qloc, replaced>>

\* if switch_queue: item = switch_queue[0]; the resolver starts on the first
\* backend.
QPeek ==
  /\ qpc = "sleep"
  /\ header_count' = 0
  /\ UNCHANGED game
  /\ switch_queue # <<>>
  /\ rpc' = NoCall
  /\ UNCHANGED <<player_list_cache, channel, next_uid, budget, hpc, hloc,
                 replaced>>
  /\ IF api_clients = <<>>
     THEN QGone(FALSE)
     ELSE /\ qloc' = [NoCycle EXCEPT !.item = switch_queue[1], !.i = 1]
          /\ qpc' = "resolve"
          /\ sent' = "none"
          /\ fault' = "none"
          /\ UNCHANGED switch_queue

\* Mutant of QMiss: the resolver gives up at the first backend that misses.
QMissGivesUp(raised) == QGone(raised)

\* Mutant of QMiss: a roster fetch that raised is not caught in the resolver
\* and ends the cycle in the except of the loop.
QMissFatal(raised) ==
  IF raised
  THEN sent' = "none" /\ QExcept
  ELSE IF qloc.i < Len(api_clients)
  THEN /\ qloc' = [qloc EXCEPT !.i = qloc.i + 1]
       /\ fault' = "none"
       /\ sent' = "none"
       /\ UNCHANGED <<qpc, switch_queue>>
  ELSE QGone(raised)

\* _find_player_across_rcons goes on to the next backend, or returns
\* (None, None, None) after the last one.
QMiss(raised) ==
  IF qloc.i < Len(api_clients)
  THEN /\ qloc' = [qloc EXCEPT !.i = qloc.i + 1, !.raised = qloc.raised \/ raised]
       /\ fault' = "none"
       /\ sent' = "none"
       /\ UNCHANGED <<qpc, switch_queue>>
  ELSE QGone(raised)

\* One iteration of _find_player_across_rcons, from the answer of
\* get_detailed_players on; a hit returns to the cycle, which asks the
\* resolving backend for its gamestate.
QResolve ==
  /\ qpc = "resolve"
  /\ header_count' = 0
  /\ UNCHANGED game
  /\ UNCHANGED <<player_list_cache, channel, next_uid, budget, hpc, hloc,
                 replaced>>
  /\ LET client == api_clients[qloc.i] IN
     \/ /\ rpc' = Raised("get_detailed_players", client, "")
        /\ QMiss(TRUE)
     \/ \E players_resp \in RosterAnswers(client) :
          LET found == FindPlayerByIdOrName(ExtractPlayersMap(players_resp),
                                            qloc.item.player_id, qloc.item.player_name)
          IN  /\ rpc' = Answered("get_detailed_players", client, "", players_resp)
              /\ IF found.found_id # "" /\ found.pdata # [none |-> TRUE]
                 THEN /\ qpc' = "gamestate"
                      /\ qloc' = [qloc EXCEPT !.client = client]
                      /\ fault' = "none"
                      /\ sent' = "none"
                      /\ UNCHANGED switch_queue
                 ELSE QMiss(FALSE)

\* The answer of channel.send(player_left_game), then popleft.
QNotifyGone ==
  /\ qpc = "notify_gone"
  /\ header_count' = 0
  /\ UNCHANGED game
  /\ rpc' = NoCall
  /\ UNCHANGED <<player_list_cache, channel, next_uid, budget, hpc, hloc,
                 replaced>>
  /\ sent' = "player_left_game"
  /\ \/ /\ fault' = "none"
        /\ switch_queue' = PopLeft(switch_queue)
        /\ CycleEnds
     \/ QExcept

\* Mutant of QGamestate: the headcounts are asked of the first backend of the
\* registry, wherever the player was resolved.
QGamestateOnFirst ==
  /\ qpc = "gamestate"
  /\ header_count' = 0
  /\ UNCHANGED game
  /\ UNCHANGED <<player_list_cache, channel, next_uid, budget, hpc, hloc,
                 replaced>>
  /\ \/ /\ rpc' = Raised("get_gamestate", api_clients[1], "")
        /\ sent' = "none"
        /\ QExcept
     \/ \E gamestate \in GamestateAnswers(api_clients[1]) :
          /\ rpc' = Answered("get_gamestate", api_clients[1], "", gamestate)
          /\ fault' = "none"
          /\ sent' = "none"
          /\ UNCHANGED switch_queue
          /\ IF QueueAdmits(TargetTeamPlayers(gamestate, qloc.item.target_team))
             THEN /\ qpc' = "switch"
                  /\ UNCHANGED qloc
             ELSE CycleEnds

\* Mutant of QGamestate: the target faction is derived again from the faction
\* the player is on now, as a handler derives it, and the recorded one is
\* not read.
QGamestateRederives ==
  /\ qpc = "gamestate"
  /\ header_count' = 0
  /\ UNCHANGED game
  /\ UNCHANGED <<player_list_cache, channel, next_uid, budget, hpc, hloc,
                 replaced>>
  /\ \/ /\ rpc' = Raised("get_gamestate", qloc.client, "")
        /\ sent' = "none"
        /\ QExcept
     \/ \E gamestate \in GamestateAnswers(qloc.client) :
          /\ rpc' = Answered("get_gamestate", qloc.client, "", gamestate)
          /\ fault' = "none"
          /\ sent' = "none"
          /\ UNCHANGED switch_queue
          /\ IF QueueAdmits(TargetTeamPlayers(gamestate,
                   TargetTeam(CurrentTeam(qloc.client, qloc.item.player_id))))
             THEN /\ qpc' = "switch"
                  /\ UNCHANGED qloc
             ELSE CycleEnds

\* The answer of get_gamestate: the capacity decision of the cycle.
QGamestate ==
  /\ qpc = "gamestate"
  /\ header_count' = 0
  /\ UNCHANGED game
  /\ UNCHANGED <<player_list_cache, channel, next_uid, budget, hpc, hloc,
                 replaced>>
  /\ \/ /\ rpc' = Raised("get_gamestate", qloc.client, "")
        /\ sent' = "none"
        /\ QExcept
     \/ \E gamestate \in GamestateAnswers(qloc.client) :
          /\ rpc' = Answered("get_gamestate", qloc.client, "", gamestate)
          /\ fault' = "none"
          /\ sent' = "none"
          /\ UNCHANGED switch_queue
          /\ IF QueueAdmits(TargetTeamPlayers(gamestate, qloc.item.target_team))
             THEN /\ qpc' = "switch"
                  /\ UNCHANGED qloc
             ELSE CycleEnds

\* The answer of switch_player_now: with a channel the outcome is sent
\* before the popleft, without one the head is popped at once.
QSwitch ==
  /\ qpc = "switch"
  /\ header_count' = 0
  /\ UNCHANGED <<player_list_cache, channel, next_uid, budget, hpc, hloc,
                 replaced>>
  /\ \/ /\ rpc' = Raised("switch_player_now", qloc.client, qloc.item.player_id)
        /\ sent' = "none"
        /\ UNCHANGED game
        /\ QExcept
     \/ \E response \in SwitchResponses :
          /\ rpc' = Answered("switch_player_now", qloc.client, qloc.item.player_id,
                             response)
          /\ game' = Switched(qloc.client, qloc.item.player_id, response)
          /\ fault' = "none"
          /\ sent' = "none"
          /\ IF channel
             THEN /\ qpc' = "notify"
                  /\ qloc' = [qloc EXCEPT !.success = SwitchSucceeded(response)]
                  /\ UNCHANGED switch_queue
             ELSE /\ switch_queue' = PopLeft(switch_queue)
                  /\ CycleEnds

\* Mutant of QNotify: after a failed switch the head is left for another try.
QNotifyRetries ==
  /\ qpc = "notify"
  /\ header_count' = 0
  /\ UNCHANGED game
  /\ rpc' = NoCall
  /\ UNCHANGED <<player_list_cache, channel, next_uid, budget, hpc, hloc,
                 replaced>>
  /\ sent' = IF qloc.success THEN "switch_request_success"
              ELSE "switch_request_failure"
  /\ fault' = "none"
  /\ switch_queue' = IF qloc.success THEN PopLeft(switch_queue) ELSE switch_queue
  /\ CycleEnds

\* The answer of channel.send(success or failure), then popleft.
QNotify ==
  /\ qpc = "notify"
  /\ header_count' = 0
  /\ UNCHANGED game
  /\ rpc' = NoCall
  /\ UNCHANGED <<player_list_cache, channel, next_uid, budget, hpc, hloc,
                 replaced>>
  /\ sent' = IF qloc.success THEN "switch_request_success"
              ELSE "switch_request_failure"
  /\ \/ /\ fault' = "none"
        /\ switch_queue' = PopLeft(switch_queue)
        /\ CycleEnds
     \/ QExcept

\* ---------------------------------------------------------- specification
Handler(h) ==
  \/ HSwitchCmd(h)
  \/ HGamestate(h)
  \/ HSwitch(h)
  \/ HPlayersCmd(h)
  \/ HListFetch(h)

QueueProcessor ==
  \/ QIdle
  \/ QPeek
  \/ QResolve
  \/ QNotifyGone
  \/ QGamestate
  \/ QSwitch
  \/ QNotify

Next == (\E h \in Handlers : Handler(h)) \/ QueueProcessor

\* The whole program from its construction.
Spec == Init /\ [][Next]_vars

\* The command handlers alone, from construction: the queue loop never
\* touches the cache and the handlers never read what the loop writes but
\* the length of the queue.
InitCommands ==
  /\ switch_queue = <<>>
  /\ player_list_cache = NoEntries
  /\ next_uid = 1
  /\ budget = MaxCommands
  /\ game = Untracked
  /\ Fresh

NextCommands == \E h \in Handlers : Handler(h)

SpecCommands == InitCommands /\ [][NextCommands]_vars

\* The cache as a listing without filter leaves it when backend A answers
\* RosterTwo and backend B answers nothing usable.
ListedCache ==
  WriteEntries(NoEntries, "A", FilteredPlayers(RosterTwo, EMPTY), 0)

\* The item a switch command for cache entry number creates.
ItemOf(number, uid) ==
  [uid |-> uid,
   player_id |-> ListedCache[number].player_id,
   player_name |-> ListedCache[number].player_name,
   target_team |-> TargetTeam(ListedCache[number].team),
   discord_id |-> "u1"]

\* A queue one short of MAX_QUEUE_SIZE, as earlier deferred commands leave it.
WaitingQueue ==
  [k \in 1..(MAX_QUEUE_SIZE - 1) |-> ItemOf(IF k % 2 = 1 THEN 1 ELSE 2, k)]

\* The switch handlers and the queue loop, after a listing has filled the
\* cache, with the queue empty or nearly full.
InitQueue ==
  /\ switch_queue \in {<<>>, WaitingQueue}
  /\ player_list_cache = ListedCache
  /\ next_uid = Len(switch_queue) + 1
  /\ budget = MaxSwitches
  /\ game = Untracked
  /\ Fresh

SwitchHandler(h) ==
  \/ HSwitchCmd(h)
  \/ HGamestate(h)
  \/ HSwitch(h)

NextQueue == (\E h \in Handlers : SwitchHandler(h)) \/ QueueProcessor

SpecQueue == InitQueue /\ [][NextQueue]_vars

\* The queue loop under the scheduling of the event loop: a task that can run
\* is run, so the loop is not held up forever (its sleep ends, its awaits are
\* answered).  The queue starts with MaxWaiting deferred requests.
InitLive ==
  /\ switch_queue = [k \in 1..MaxWaiting |-> ItemOf(IF k % 2 = 1 THEN 1 ELSE 2, k)]
  /\ player_list_cache = ListedCache
  /\ next_uid = MaxWaiting + 1
  /\ budget = MaxLate
  /\ game = Untracked
  /\ Fresh

SpecLive == InitLive /\ [][NextQueue]_vars /\ WF_vars(QueueProcessor)

\* The cache as a listing without filter leaves it when backend A answers
\* RosterThree and backend B has no players.
TrackedCache ==
  WriteEntries(NoEntries, "A", FilteredPlayers(RosterThree, EMPTY), 0)

\* The item a deferred switch command for entry number of TrackedCache created.
TrackedItem(number, uid) ==
  [uid |-> uid,
   player_id |-> TrackedCache[number].player_id,
   player_name |-> TrackedCache[number].player_name,
   target_team |-> TargetTeam(TrackedCache[number].team),
   discord_id |-> "u1"]

\* The switch handlers and the queue loop against backends whose game is
\* tracked: backend A holds the three listed players, backend B none; the
\* headcounts move only by the switches the program gets carried out.  The
\* queue is empty or holds one or two requests for player 1 that were
\* deferred while axis was full; axis has room again.
InitTracked ==
  /\ switch_queue \in {<<>>, <<TrackedItem(1, 1)>>,
                        <<TrackedItem(1, 1), TrackedItem(1, 2)>>}
  /\ player_list_cache = TrackedCache
  /\ next_uid = Len(switch_queue) + 1
  /\ budget = MaxTracked
  /\ \E axis \in {48, 49}, allied \in {50, 51} :
       game = [c \in {"A", "B"} |->
                 IF c = "A"
                 THEN [tracked |-> TRUE, players |-> RosterThree,
                       num_allied_players |-> allied, num_axis_players |-> axis]
                 ELSE [tracked |-> TRUE, players |-> <<>>,
                       num_allied_players |-> 0, num_axis_players |-> 0]]
  /\ Fresh

SpecTracked == InitTracked /\ [][NextQueue]_vars

\* One handler task and the queue loop, from construction: listings, switch
\* commands and cycles interleave, but no two commands do.
NextSolo == Handler("h1") \/ QueueProcessor

SpecSolo == Init /\ [][NextSolo]_vars

\* One command at a time, from construction: every command runs to its end
\* before the next one starts, and the queue loop is not running.
InitSequential ==
  /\ switch_queue = <<>>
  /\ player_list_cache = NoEntries
  /\ next_uid = 1
  /\ budget = MaxSequential
  /\ game = Untracked
  /\ Fresh

NextSequential == Handler("h1")

SpecSequential == InitSequential /\ [][NextSequential]_vars

\* ----------------------------------------------------------------- claims
\* The headcount a gamestate reports for a faction.
Reported(gamestate, team) ==
  CASE team = AXIS -> gamestate.num_axis_players
    [] team = ALLIES -> gamestate.num_allied_players

\* This step is handler h receiving the headcounts it asked for.
HandlerGotCount(h) ==
  /\ hpc[h] = "gamestate"
  /\ hpc'[h] # "gamestate"
  /\ rpc'.op = "get_gamestate"
  /\ ~rpc'.raised

\* The headcount of h's target faction in the answer of this step.
HandlerCount(h) == Reported(rpc'.result, hloc[h].target_team)

\* This step is a step of the queue loop inside a cycle.
LoopStep == qpc # "sleep" /\ (qpc' # qpc \/ qloc' # qloc)

\* This step is the queue loop receiving the headcounts it asked for.
LoopGotCount ==
  /\ qpc = "gamestate"
  /\ qpc' # "gamestate"
  /\ ~rpc'.raised

\* The headcount of the head item's target faction in the answer of this step.
LoopCount == Reported(rpc'.result, qloc.item.target_team)

\* The item handler h's command stands for is appended at the tail.
Enqueued(h) ==
  switch_queue' = Append(switch_queue,
    [uid |-> next_uid,
     player_id |-> hloc[h].player_id,
     player_name |-> hloc[h].player_name,
     target_team |-> hloc[h].target_team,
     discord_id |-> hloc[h].discord_id])

\* This step removes exactly the head, which is the item the loop peeked.
HeadPopped ==
  /\ switch_queue # <<>>
  /\ switch_queue' = Tail(switch_queue)
  /\ qloc.item = Head(switch_queue)

\* A roster answer holds a record that matches the item by key, by id field
\* or by name.
Matches(players_resp, item) ==
  /\ players_resp.dict
  /\ \E k \in 1..Len(players_resp.players) :
       LET p == players_resp.players[k] IN
       \/ p.key = item.player_id
       \/ p.pdata.player_id = item.player_id
       \/ p.pdata.name = item.player_name

IncreasingUids(queue) ==
  \A i, j \in 1..Len(queue) : i < j => queue[i].uid < queue[j].uid

\* C1: the queue never holds more than MAX_QUEUE_SIZE items, and a handler
\* whose target faction is reported at 50 or more while the queue holds
\* MAX_QUEUE_SIZE items sends 'queue_full' and leaves the queue as it is.
QueueBounded ==
  /\ [](Len(switch_queue) <= MAX_QUEUE_SIZE)
  /\ [][\A h \in Handlers :
          (HandlerGotCount(h) /\ HandlerCount(h) >= 50
             /\ Len(switch_queue) >= MAX_QUEUE_SIZE)
          => (switch_queue' = switch_queue /\ sent' = "queue_full"
                /\ hpc'[h] = "idle")]_vars

\* C1 witness: a command has just been rejected at a queue of MAX_QUEUE_SIZE.
QueueFullRejected ==
  Len(switch_queue) = MAX_QUEUE_SIZE /\ sent = "queue_full"

\* C2: every step leaves the queue alone, appends one new item at the tail,
\* or removes exactly the head, and that head is the item the loop peeked;
\* the items stand in the order of their creation; while a cycle runs its
\* item is the head; the loop commands a switch only for the head's player.
Fifo ==
  /\ IncreasingUids(switch_queue)
  /\ [][/\ \/ switch_queue' = switch_queue
           \/ /\ Len(switch_queue') = Len(switch_queue) + 1
              /\ SubSeq(switch_queue', 1, Len(switch_queue)) = switch_queue
              /\ switch_queue'[Len(switch_queue')].uid = next_uid
              /\ next_uid' > next_uid
           \/ HeadPopped
        /\ IncreasingUids(switch_queue')
        /\ qpc' # "sleep" => (switch_queue' # <<>> /\ qloc'.item = Head(switch_queue'))
        /\ (LoopStep /\ rpc'.op = "switch_player_now")
             => rpc'.arg = Head(switch_queue).player_id]_vars

\* C2 witness: older items have left and an item enqueued in this run waits
\* behind older ones.
FifoWitness ==
  /\ Len(switch_queue) >= 2
  /\ Head(switch_queue).uid > 1
  /\ switch_queue[Len(switch_queue)].uid >= MAX_QUEUE_SIZE

\* C3: in the handler and in the queue loop the decision is Admit exactly
\* when the reported headcount of the target faction is below 50 and Defer
\* exactly when it is 50 or more, the headcounts are those of the backend the
\* request is for, and a handler's target faction is axis or allies and is
\* not the player's current faction.
CapacityGate ==
  [][/\ \A h \in Handlers :
          HandlerGotCount(h) =>
            /\ rpc'.client = hloc[h].rcon_client
            /\ (hpc'[h] = "switch") <=> (HandlerCount(h) < 50)
            /\ (hpc'[h] = "idle" /\ sent' \in {"added_to_queue", "queue_full"})
                 <=> (HandlerCount(h) >= 50)
     /\ LoopGotCount =>
          /\ rpc'.op = "get_gamestate"
          /\ rpc'.client = qloc.client
          /\ (qpc' = "switch") <=> (LoopCount < 50)
          /\ (qpc' = "sleep" /\ switch_queue' = switch_queue) <=> (LoopCount >= 50)
     /\ \A h \in Handlers :
          (hpc[h] = "idle" /\ hpc'[h] = "gamestate") =>
            LET entry == player_list_cache[hloc'[h].player_number] IN
            /\ hloc'[h].target_team \in {AXIS, ALLIES}
            /\ hloc'[h].target_team # entry.team
            /\ hloc'[h].rcon_client = entry.api_client]_vars

\* C3 witness: the loop has admitted a switch to axis on axis = 49 while
\* allies is at 50.
AdmittedAtFortyNine ==
  /\ qpc = "switch"
  /\ qloc.item.target_team = AXIS
  /\ rpc.op = "get_gamestate"
  /\ ~rpc.raised
  /\ rpc.client = qloc.client
  /\ rpc.result.num_axis_players = 49
  /\ rpc.result.num_allied_players = 50

\* The steps of a cycle from the headcounts on, as C4 describes them.
AdmitSequence ==
  /\ (LoopGotCount /\ LoopCount >= 50) =>
       (switch_queue' = switch_queue /\ Head(switch_queue') = qloc.item
          /\ qpc' = "sleep" /\ sent' = "none")
  /\ (LoopGotCount /\ LoopCount < 50) =>
       (qpc' = "switch" /\ switch_queue' = switch_queue)
  /\ (qpc = "switch" /\ qpc' # "switch") =>
       /\ rpc'.op = "switch_player_now"
       /\ rpc'.arg = Head(switch_queue).player_id
       /\ rpc'.client = qloc.client
       /\ rpc'.raised => HeadPopped
       /\ ~rpc'.raised =>
            /\ qpc' = "notify"
            /\ qloc'.success =
                 (rpc'.result.result = TRUE /\ rpc'.result.failed = FALSE)
            /\ qloc'.item = qloc.item
            /\ switch_queue' = switch_queue
  /\ (qpc = "notify" /\ qpc' # "notify") =>
       /\ HeadPopped
       /\ qpc' = "sleep"
       /\ sent' = IF qloc.success THEN "switch_request_success"
                  ELSE "switch_request_failure"

LastMiss ==
  /\ qpc = "resolve"
  /\ LoopStep
  /\ qloc.i = Len(api_clients)
  /\ (rpc'.raised \/ ~Matches(rpc'.result, qloc.item))

\* C5: when the last backend of a cycle's resolve has no match for the head
\* item, the cycle removes that item (after the 'player_left_game' message
\* when the loop has a channel) without commanding a switch; and an item
\* that enters the queue is always a newly created one, so an item that has
\* left never comes back.
IdempotentDrop ==
  /\ \A k \in 1..Len(switch_queue) : switch_queue[k].uid < next_uid
  /\ [][/\ LastMiss =>
             IF channel
             THEN /\ qpc' = "notify_gone"
                  /\ qloc'.item = qloc.item
                  /\ switch_queue' = switch_queue
             ELSE HeadPopped /\ qpc' = "sleep"
        /\ (qpc = "resolve" /\ LoopStep) => rpc'.op = "get_detailed_players"
        /\ (qpc = "notify_gone" /\ LoopStep) =>
             (HeadPopped /\ qpc' = "sleep" /\ rpc'.op = "none"
                /\ sent' = "player_left_game")
        /\ \A k \in 1..Len(switch_queue') :
             /\ switch_queue'[k].uid < next_uid'
             /\ (\A j \in 1..Len(switch_queue) : switch_queue[j] # switch_queue'[k])
                  => switch_queue'[k].uid >= next_uid
        /\ next_uid' >= next_uid]_vars

\* C5 witness: the loop has sent 'player_left_game' and dropped the head.
GoneDropped ==
  /\ sent = "player_left_game"
  /\ fault = "none"
  /\ qpc = "sleep"
  /\ next_uid > 1

\* C6 as claimed: a switch command whose number was handed out by the listing
\* that the latest listing replaced does not get past the cache lookup.
StaleNumberFails ==
  [][\A h \in Handlers :
       (hpc[h] = "idle" /\ hpc'[h] = "gamestate")
         => hloc'[h].player_number \notin replaced]_vars

\* C7: the resolver asks the backends in registry order starting with the
\* first; an answer that holds a match returns that backend; otherwise it
\* goes on to the next backend, and after the last one it returns not found.
ResolverOrder ==
  [][/\ (qpc = "sleep" /\ qpc' = "resolve") => (qloc'.i = 1 /\ qloc'.client = "")
     /\ (qpc = "resolve" /\ LoopStep) =>
          /\ rpc'.op = "get_detailed_players"
          /\ rpc'.client = api_clients[qloc.i]
          /\ IF ~rpc'.raised /\ Matches(rpc'.result, qloc.item)
             THEN qpc' = "gamestate" /\ qloc'.client = api_clients[qloc.i]
             ELSE IF qloc.i < Len(api_clients)
             THEN qpc' = "resolve" /\ qloc'.i = qloc.i + 1 /\ qloc'.client = ""
             ELSE qpc' \in {"notify_gone", "sleep"}]_vars

\* C7 witness: the first backend had no match and the player is resolved on
\* the second.
ResolvedOnLater ==
  /\ qpc = "gamestate"
  /\ qloc.client = api_clients[2]
  /\ rpc.op = "get_detailed_players"
  /\ ~rpc.raised

\* C8 as claimed: a cycle in which any remote call or send raised, the roster
\* fetches of the resolve included, ends with the head removed.
AnyExceptionPopsHead ==
  [][(qpc # "sleep" /\ qpc' = "sleep"
        /\ (qloc.raised \/ rpc'.raised \/ fault' = "caught"))
      => HeadPopped]_vars

\* C8 amended: an exception of the headcount fetch, of the switch command or
\* of a send reaches the except of the loop, which removes exactly the head
\* item the cycle peeked and returns to the sleep of the loop; an exception
\* of a roster fetch is caught inside the resolver, which goes on as after a
\* miss, and removes nothing by itself.
ExceptionPopsHead ==
  [][/\ (LoopStep /\ rpc'.raised /\ rpc'.op # "get_detailed_players")
          => fault' = "caught"
     /\ fault' = "caught" => (qpc # "sleep" /\ HeadPopped /\ qpc' = "sleep")
     /\ (\E k \in 1..Len(switch_queue) :
           \A j \in 1..Len(switch_queue') : switch_queue'[j] # switch_queue[k])
          => HeadPopped
     /\ (qpc = "resolve" /\ LoopStep /\ rpc'.raised) =>
          /\ fault' = "none"
          /\ IF qloc.i < Len(api_clients)
             THEN qpc' = "resolve" /\ switch_queue' = switch_queue
             ELSE IF channel
             THEN qpc' = "notify_gone" /\ switch_queue' = switch_queue
             ELSE HeadPopped]_vars

\* C8 witness: the except of the loop has dropped a head and other items
\* are still queued.
ExceptionDropped ==
  /\ fault = "caught"
  /\ qpc = "sleep"
  /\ switch_queue # <<>>

\* C9 as claimed: no item leaves the queue in a step that passes no message
\* to send, and no switch command ends in a step that passes none.
EveryOutcomeNotified ==
  [][/\ (switch_queue # <<>> /\ switch_queue' = Tail(switch_queue))
          => sent' # "none"
     /\ \A h \in Handlers :
          (hpc[h] \in {"gamestate", "switch"} /\ hpc'[h] = "idle" /\ ~rpc'.raised)
            => sent' # "none"
     /\ (budget' # budget /\ hpc' = hpc) => sent' # "none"]_vars

\* C10 as claimed: no exception of a remote call leaves a handler unhandled.
RemoteFailuresCaught == ~(rpc.raised /\ fault = "unhandled")

\* queue is what new was before items were appended at its tail.
IsPrefix(queue, new) ==
  Len(queue) <= Len(new) /\ SubSeq(new, 1, Len(queue)) = queue

\* C11: while a cycle runs, the item it peeked stays the head whatever the
\* handlers enqueue meanwhile; a step inside a cycle only lets the queue grow
\* at its tail; the only step that removes anything is the last step of a
\* cycle, and it removes exactly the peeked item, so a cycle removes at most
\* one item and every item appended during it is still queued, in arrival
\* order, after the pop.
NoCorruption ==
  /\ [](qpc # "sleep" => (switch_queue # <<>> /\ qloc.item = Head(switch_queue)))
  /\ [][/\ (qpc # "sleep" /\ qpc' # "sleep") => IsPrefix(switch_queue, switch_queue')
        /\ (qpc = "sleep" /\ qpc' = "sleep") => IsPrefix(switch_queue, switch_queue')
        /\ (qpc = "sleep" /\ qpc' # "sleep") =>
             (switch_queue' = switch_queue /\ qloc'.item = Head(switch_queue))
        /\ ~IsPrefix(switch_queue, switch_queue') =>
             /\ qpc # "sleep"
             /\ qpc' = "sleep"
             /\ qloc.item = Head(switch_queue)
             /\ switch_queue' = Tail(switch_queue)
        /\ (hpc' # hpc /\ switch_queue' # switch_queue) =>
             /\ Len(switch_queue') = Len(switch_queue) + 1
             /\ IsPrefix(switch_queue, switch_queue')
             /\ UNCHANGED <<qpc, qloc>>]_vars

\* C11 witness: a handler has just enqueued an item while a cycle is between
\* its peek and its pop.
EnqueuedDuringCycle ==
  /\ qpc \in {"resolve", "notify_gone", "gamestate", "switch", "notify"}
  /\ sent = "added_to_queue"
  /\ Len(switch_queue) >= 2
  /\ switch_queue[Len(switch_queue)].uid = next_uid - 1
  /\ qloc.item = Head(switch_queue)

\* This step is the cache lookup of a switch-by-number command.
SwitchLookup ==
  /\ budget' # budget
  /\ \/ sent' \in {"players_list_missing_number", "players_list_missing_id",
                   "player_not_in_game"}
     \/ \E h \in Handlers : hpc[h] = "idle" /\ hpc'[h] = "gamestate"

\* C12 as claimed: no switch-by-number lookup reads the cache while a listing
\* is between the reset of the cache and its last write.
LookupSeesWholeListing ==
  [][SwitchLookup => \A g \in Handlers : hpc[g] # "list"]_vars

\* C13 as claimed: the keys of the cache are 1..n for some n >= 0.
DenseKeys ==
  DOMAIN player_list_cache = 1..Cardinality(DOMAIN player_list_cache)

\* This step is handler h receiving the answer of a roster fetch of its listing.
ListStep(h) == hpc[h] = "list" /\ hloc'[h] # hloc[h]

\* The roster of the answer of this step, empty when the answer is malformed.
AnsweredRoster == IF rpc'.result.dict THEN rpc'.result.players ELSE <<>>

\* The positions of the roster whose normalised faction passes the filter.
Passing(roster, team_filter) ==
  {k \in 1..Len(roster) :
     team_filter = EMPTY \/ NormalizeTeam(roster[k].pdata.team) = team_filter}

\* C14: a listing that no other command interleaves with starts from an empty
\* cache; each backend whose fetch answers contributes exactly the roster
\* players whose normalised faction passes the filter (all of them without a
\* filter), in roster order, under the numbers following those already
\* handed out, and its header carries the number of entries it contributed;
\* a backend whose fetch raises contributes nothing; the backends are taken
\* in registry order; so the keys of the cache are always 1..n.
ListingExact ==
  /\ [](\A h \in Handlers :
          hpc[h] = "list" =>
            (hloc[h].i \in 1..Len(api_clients)
               /\ DOMAIN player_list_cache = 1..hloc[h].current_index))
  /\ [][\A h \in Handlers :
          /\ (hpc[h] = "idle" /\ hpc'[h] = "list") =>
               /\ DOMAIN player_list_cache' = {}
               /\ hloc'[h].i = 1
               /\ hloc'[h].current_index = 0
               /\ hloc'[h].team_filter \in {AXIS, ALLIES, EMPTY}
          /\ ListStep(h) =>
               LET base == hloc[h].current_index
                   passing == IF rpc'.raised THEN {}
                              ELSE Passing(AnsweredRoster, hloc[h].team_filter)
                   n == Cardinality(passing)
               IN  /\ rpc'.op = "get_detailed_players"
                   /\ rpc'.client = api_clients[hloc[h].i]
                   /\ DOMAIN player_list_cache' = 1..(base + n)
                   /\ \A j \in 1..base : player_list_cache'[j] = player_list_cache[j]
                   /\ \A k \in passing :
                        LET number == base + Cardinality({m \in passing : m <= k})
                            entry == player_list_cache'[number]
                            pdata == AnsweredRoster[k].pdata
                        IN  /\ entry.api_client = api_clients[hloc[h].i]
                            /\ entry.player_id = pdata.player_id
                            /\ entry.player_name = pdata.name
                            /\ entry.team = NormalizeTeam(pdata.team)
                   /\ IF rpc'.raised
                      THEN sent' = "players_list_failure" /\ header_count' = 0
                      ELSE sent' = "players_list_header" /\ header_count' = n
                   /\ hpc'[h] = "list" =>
                        /\ hloc'[h].i = hloc[h].i + 1
                        /\ hloc'[h].current_index = base + n
                        /\ hloc'[h].team_filter = hloc[h].team_filter
                   /\ hpc'[h] = "idle" =>
                        (hloc[h].i = Len(api_clients) \/ fault' = "unhandled")]_vars

\* C14 witness: a listing with a filter has run to completion; backend A
\* contributed entries 1 and 2 and backend B, whose roster has three players
\* with two on the filtered faction, contributed entries 3 and 4 under a
\* header count of 2.
ListedTwoOfThree ==
  /\ hpc["h1"] = "idle"
  /\ fault = "none"
  /\ sent = "players_list_header"
  /\ header_count = 2
  /\ rpc.client = "B"
  /\ rpc.result.players = RosterThree
  /\ DOMAIN player_list_cache = 1..4
  /\ player_list_cache[2].api_client = "A"
  /\ player_list_cache[3] =
       [api_client |-> "B", player_id |-> "p1", player_name |-> "n1", team |-> ALLIES]
  /\ player_list_cache[4] =
       [api_client |-> "B", player_id |-> "p3", player_name |-> "n3", team |-> ALLIES]

RejectMessages ==
  {"players_list_missing_number", "players_list_missing_id", "player_not_in_game"}

\* C15: a switch-by-number command goes on to its first remote call only with
\* a number that is a key of the cache whose entry has a player id and a
\* faction; otherwise it ends at the lookup with exactly one message, which
\* is the unknown-number message only when some number is not a key, the
\* missing-id message only when an entry has no id, and the not-in-game
\* message only when an entry with an id has no faction; the rejecting step
\* makes no remote call and leaves the queue and the cache as they are.
RejectsAtLookup ==
  [][/\ \A h \in Handlers :
          (hpc[h] = "idle" /\ hpc'[h] = "gamestate") =>
            /\ hloc'[h].player_number \in DOMAIN player_list_cache
            /\ player_list_cache[hloc'[h].player_number].player_id # ""
            /\ player_list_cache[hloc'[h].player_number].team # EMPTY
            /\ sent' = "none"
     /\ (SwitchLookup /\ hpc' = hpc) =>
          /\ sent' \in RejectMessages
          /\ rpc'.op = "none"
          /\ UNCHANGED <<switch_queue, player_list_cache, next_uid, hloc>>
          /\ sent' = "players_list_missing_number" =>
               \E n \in Numbers : n \notin DOMAIN player_list_cache
          /\ sent' = "players_list_missing_id" =>
               \E n \in Numbers \cap DOMAIN player_list_cache :
                 player_list_cache[n].player_id = ""
          /\ sent' = "player_not_in_game" =>
               \E n \in Numbers \cap DOMAIN player_list_cache :
                 /\ player_list_cache[n].player_id # ""
                 /\ player_list_cache[n].team = EMPTY
     /\ (budget' # budget
           /\ \A n \in Numbers :
                /\ n \in DOMAIN player_list_cache
                /\ player_list_cache[n].player_id # ""
                /\ player_list_cache[n].team # EMPTY)
          => sent' \notin RejectMessages]_vars

\* C15 witness: a command has been rejected for a missing player id while an
\* item is queued and the cache holds an entry without id.
RejectedMissingId ==
  /\ sent = "players_list_missing_id"
  /\ rpc.op = "none"
  /\ hpc["h1"] = "idle"
  /\ switch_queue # <<>>
  /\ \E n \in DOMAIN player_list_cache : player_list_cache[n].player_id = ""

\* C17 as claimed: a switch-by-number command for an entry whose faction is
\* neither axis nor allies ends at the lookup: it derives no target faction
\* and goes on to no remote call.
UnknownFactionRejected ==
  [][\A h \in Handlers :
       (hpc[h] = "idle" /\ hpc'[h] = "gamestate") =>
         player_list_cache[hloc'[h].player_number].team \in {AXIS, ALLIES}]_vars

\* C16: a handler commands the switch only in the step that ends its command;
\* the loop commands it only for the item it peeked, and the cycle then
\* removes that item before it returns to its sleep, at once or after the
\* send of the outcome, whatever the command reported and whether or not
\* that send raises; a cycle reaches its switch only from its headcount
\* answer; and only newly created items enter the queue, so no item meets a
\* second switch command.
SwitchedOnce ==
  [][/\ \A h \in Handlers :
          /\ (hpc[h] = "switch" /\ hpc'[h] # "switch") =>
               /\ rpc'.op = "switch_player_now"
               /\ rpc'.arg = hloc[h].player_id
               /\ hpc'[h] = "idle"
               /\ hloc'[h] = NoLocals
               /\ switch_queue' = switch_queue
          /\ (hpc[h] # "switch" /\ hpc'[h] = "switch") =>
               (hpc[h] = "gamestate" /\ rpc'.op = "get_gamestate")
     /\ rpc'.op = "switch_player_now" =>
          \/ \E h \in Handlers : hpc[h] = "switch" /\ hpc'[h] = "idle"
          \/ qpc = "switch" /\ qpc' \in {"notify", "sleep"}
     /\ (qpc = "switch" /\ LoopStep) =>
          /\ rpc'.op = "switch_player_now"
          /\ rpc'.arg = qloc.item.player_id
          /\ qloc.item = Head(switch_queue)
          /\ \/ HeadPopped /\ qpc' = "sleep"
             \/ /\ qpc' = "notify"
                /\ qloc'.item = qloc.item
                /\ switch_queue' = switch_queue
     /\ (qpc = "notify" /\ LoopStep) =>
          (HeadPopped /\ qpc' = "sleep" /\ rpc'.op = "none")
     /\ (qpc # "switch" /\ qpc' = "switch") =>
          (qpc = "gamestate" /\ rpc'.op = "get_gamestate")
     /\ \A k \in 1..Len(switch_queue') :
          (\A j \in 1..Len(switch_queue) : switch_queue[j].uid # switch_queue'[k].uid)
            => (switch_queue'[k].uid = next_uid /\ next_uid' > next_uid)]_vars

\* C16 witness: the loop's switch command reported failure, the send of the
\* failure message raised, and the item is gone all the same.
FailedSwitchDropped ==
  /\ sent = "switch_request_failure"
  /\ rpc.op = "none"
  /\ fault = "caught"
  /\ qpc = "sleep"
  /\ switch_queue = <<>>
  /\ next_uid = 2

\* C19: a cycle that resolves the head's player and finds the target faction
\* at 50 or more ends at that answer with the queue exactly as it was, with
\* no message and no remote call but the roster fetches and the headcount
\* fetch; the steps of the cycle before it changed nothing either; and the
\* next cycle peeks the head of the queue, which is the same item.
BlockedLeavesQueue ==
  [][/\ (LoopGotCount /\ LoopCount >= 50) =>
          /\ rpc'.op = "get_gamestate"
          /\ switch_queue' = switch_queue
          /\ Head(switch_queue') = qloc.item
          /\ sent' = "none"
          /\ fault' = "none"
          /\ qpc' = "sleep"
     /\ (qpc = "resolve" /\ LoopStep /\ qpc' \in {"resolve", "gamestate"}) =>
          /\ rpc'.op = "get_detailed_players"
          /\ switch_queue' = switch_queue
          /\ sent' = "none"
     /\ ~(qpc = "sleep" /\ qpc' = "gamestate")
     /\ (qpc = "sleep" /\ qpc' # "sleep") =>
          /\ switch_queue' = switch_queue
          /\ qloc'.item = Head(switch_queue)
          /\ rpc'.op = "none"
          /\ sent' = "none"
     /\ (qpc = "sleep" /\ qpc' = "sleep" /\ switch_queue # <<>>) =>
          Head(switch_queue') = Head(switch_queue)]_vars

\* C19 witness: a cycle has just ended Blocked: the head's target faction is
\* reported at 50 by the backend that resolved the player, the other faction
\* at 49, and the item is still the head.
BlockedCycleEnded ==
  /\ qpc = "sleep"
  /\ switch_queue # <<>>
  /\ rpc.op = "get_gamestate"
  /\ ~rpc.raised
  /\ hpc = [h \in Handlers |-> "idle"]
  /\ Head(switch_queue).target_team = AXIS
  /\ rpc.result.num_axis_players = 50
  /\ rpc.result.num_allied_players = 49
  /\ sent = "none"

\* C20: a cycle starts its resolve at the first backend with no backend
\* carried over from the request or from an earlier cycle (a queue item
\* records none); it gives the player up only after the last backend; the
\* backend it keeps is the one whose answer held the match in this cycle;
\* and the headcount fetch and the switch command of the cycle go to that
\* backend.
OnResolvingBackend ==
  /\ [](/\ qpc \in {"gamestate", "switch", "notify"} =>
             qloc.client = api_clients[qloc.i]
        /\ \A k \in 1..Len(switch_queue) :
             DOMAIN switch_queue[k] =
               {"uid", "player_id", "player_name", "target_team", "discord_id"})
  /\ [][/\ (qpc = "sleep" /\ qpc' # "sleep") =>
             (qpc' = "resolve" /\ qloc'.i = 1 /\ qloc'.client = "")
        /\ (qpc = "resolve" /\ LoopStep /\ qpc' \in {"notify_gone", "sleep"}) =>
             qloc.i = Len(api_clients)
        /\ (qpc = "resolve" /\ qpc' = "gamestate") =>
             /\ ~rpc'.raised
             /\ rpc'.client = api_clients[qloc.i]
             /\ Matches(rpc'.result, qloc.item)
             /\ qloc'.client = rpc'.client
             /\ qloc'.i = qloc.i
        /\ (qpc = "gamestate" /\ LoopStep) =>
             /\ rpc'.op = "get_gamestate"
             /\ rpc'.client = qloc.client
             /\ qpc' = "switch" => qloc' = qloc
        /\ (qpc = "switch" /\ LoopStep) =>
             /\ rpc'.op = "switch_player_now"
             /\ rpc'.client = qloc.client]_vars

\* C20 witness: every cache entry, hence every request, is for backend A,
\* and the loop has sent its switch command to backend B, where the cycle
\* resolved the player.
SwitchedOnOtherBackend ==
  /\ \A n \in DOMAIN player_list_cache : player_list_cache[n].api_client = "A"
  /\ rpc.op = "switch_player_now"
  /\ rpc.client = "B"
  /\ ~rpc.raised
  /\ qpc \in {"notify", "sleep"}

\* Item number uid is in the queue.
InQueue(uid) == \E k \in 1..Len(switch_queue) : switch_queue[k].uid = uid

\* The headcount answer of a cycle that finds the target faction below 50.
Unblocked == QGamestate /\ qpc' = "switch"

\* C18: the loop can always take a step; an item leaves the queue only as its
\* head, so whatever is behind a head that stays Blocked stays queued; and
\* when the loop is scheduled fairly and a head that is inspected again and
\* again is eventually found with its target faction below 50 (a head whose
\* player is on no backend is dropped by that cycle), every item that is in
\* the queue eventually leaves it.
QueueDrains ==
  /\ []ENABLED QueueProcessor
  /\ [][\A k \in 2..Len(switch_queue) :
          \E j \in 1..Len(switch_queue') : switch_queue'[j] = switch_queue[k]]_vars
  /\ SF_vars(Unblocked) =>
       \A uid \in 1..(MaxWaiting + MaxLate) : InQueue(uid) ~> ~InQueue(uid)

\* C18 witness: the waiting items and the late one have all left the queue.
QueueDrained ==
  /\ switch_queue = <<>>
  /\ next_uid = MaxWaiting + MaxLate + 1
  /\ qpc = "sleep"

\* C21: every queued item's target faction is axis or allies; the item a
\* handler appends records the target faction the handler derived at its cache
\* lookup, which the handler does not change while its command runs; an item
\* that stays in the queue stays the same record, and the item a cycle peeked
\* stays the same record while the cycle runs; and the cycle admits exactly
\* when the headcount reported for the recorded target faction is below 50,
\* whatever faction the player is on at the resolving backend by then.
RecordedTarget ==
  /\ [](\A k \in 1..Len(switch_queue) : switch_queue[k].target_team \in {AXIS, ALLIES})
  /\ [][/\ \A h \in Handlers :
             /\ (hpc[h] = "idle" /\ hpc'[h] = "gamestate") =>
                  hloc'[h].target_team =
                    TargetTeam(player_list_cache[hloc'[h].player_number].team)
             /\ (hpc[h] # "idle" /\ hpc'[h] # "idle") =>
                  hloc'[h].target_team = hloc[h].target_team
             /\ (HandlerGotCount(h) /\ switch_queue' # switch_queue) => Enqueued(h)
        /\ \A k \in 1..Len(switch_queue'), j \in 1..Len(switch_queue) :
             switch_queue'[k].uid = switch_queue[j].uid
               => switch_queue'[k] = switch_queue[j]
        /\ (qpc # "sleep" /\ qpc' # "sleep") => qloc'.item = qloc.item
        /\ LoopGotCount =>
             /\ qloc.item = Head(switch_queue)
             /\ (qpc' = "switch")
                  <=> (Reported(rpc'.result, Head(switch_queue).target_team) < 50)
             /\ (qpc' = "sleep" /\ switch_queue' = switch_queue)
                  <=> (Reported(rpc'.result, Head(switch_queue).target_team) >= 50)]_vars

\* C21 witness: the loop has admitted the head on the headcount of its
\* recorded target faction, which is below 50, while the player is on that
\* very faction by now and the faction a fresh derivation would pick is at 50.
AdmittedOnRecordedTarget ==
  /\ qpc = "switch"
  /\ rpc.op = "get_gamestate"
  /\ ~rpc.raised
  /\ rpc.client = qloc.client
  /\ CurrentTeam(qloc.client, qloc.item.player_id) = qloc.item.target_team
  /\ Reported(rpc.result, qloc.item.target_team) < 50
  /\ Reported(rpc.result, TargetTeam(qloc.item.target_team)) >= 50

\* C22: a roster fetch that raises inside the resolver does not reach the
\* except of the loop and removes nothing: the resolver goes on to the next
\* backend, and a later answer that holds a match returns that backend; the
\* resolver reports not found only after the last backend, when that fetch
\* too raised or held no match, so when every fetch raised the cycle sends
\* 'player_left_game' (with a channel) and removes the head without a switch
\* command.  A roster fetch that raises inside a listing writes nothing to
\* the cache and is reported; when that report is delivered the listing goes
\* on with the next backend under the same running number, so the entries of
\* the backends that answer are numbered consecutively.
FetchFailureSkipped ==
  [][/\ (qpc = "resolve" /\ LoopStep) =>
          /\ rpc'.op = "get_detailed_players"
          /\ rpc'.raised =>
               /\ fault' = "none"
               /\ IF qloc.i < Len(api_clients)
                  THEN /\ qpc' = "resolve"
                       /\ qloc'.i = qloc.i + 1
                       /\ qloc'.item = qloc.item
                       /\ switch_queue' = switch_queue
                  ELSE IF channel
                  THEN /\ qpc' = "notify_gone"
                       /\ qloc'.item = qloc.item
                       /\ switch_queue' = switch_queue
                  ELSE HeadPopped /\ qpc' = "sleep"
          /\ (~rpc'.raised /\ Matches(rpc'.result, qloc.item)) =>
               /\ qpc' = "gamestate"
               /\ qloc'.client = api_clients[qloc.i]
               /\ switch_queue' = switch_queue
          /\ qpc' \in {"notify_gone", "sleep"} =>
               /\ qloc.i = Len(api_clients)
               /\ rpc'.raised \/ ~Matches(rpc'.result, qloc.item)
     /\ (qpc = "notify_gone" /\ LoopStep) =>
          (HeadPopped /\ qpc' = "sleep" /\ rpc'.op = "none"
             /\ sent' = "player_left_game")
     /\ \A h \in Handlers :
          ListStep(h) =>
            LET base == hloc[h].current_index
                passing == IF rpc'.raised THEN {}
                           ELSE Passing(AnsweredRoster, hloc[h].team_filter)
                n == Cardinality(passing)
            IN  /\ rpc'.raised =>
                     /\ player_list_cache' = player_list_cache
                     /\ sent' = "players_list_failure"
                /\ DOMAIN player_list_cache' = 1..(base + n)
                /\ \A j \in 1..base : player_list_cache'[j] = player_list_cache[j]
                /\ \A j \in (base + 1)..(base + n) :
                     player_list_cache'[j].api_client = api_clients[hloc[h].i]
                /\ (fault' = "none" /\ hloc[h].i < Len(api_clients)) =>
                     /\ hpc'[h] = "list"
                     /\ hloc'[h].i = hloc[h].i + 1
                     /\ hloc'[h].current_index = base + n
                /\ (fault' = "none" /\ hloc[h].i = Len(api_clients)) =>
                     hpc'[h] = "idle"]_vars

\* C22 witness: in one cycle the roster fetch of backend A raised and the
\* player was resolved on backend B.
ResolvedAfterFailure ==
  /\ qpc = "gamestate"
  /\ qloc.raised
  /\ qloc.client = "B"
  /\ rpc.op = "get_detailed_players"
  /\ rpc.client = "B"
  /\ ~rpc.raised

\* The step is the answer to a switch command for player_id, who is on
\* backend client and not on faction team: a command toward team.
CommandToward(client, player_id, team) ==
  /\ rpc'.op = "switch_player_now"
  /\ ~rpc'.raised
  /\ CurrentTeam(client, player_id) \notin {EMPTY, team}

\* C23 as claimed: no switch command of a handler or of the queue loop goes
\* toward a faction whose headcount on that backend is already 50 or more at
\* the moment the backend takes the command.
SwitchWithinCapacity ==
  [][/\ \A h \in Handlers :
          (hpc[h] = "switch" /\ hpc'[h] = "idle"
             /\ CommandToward(hloc[h].rcon_client, hloc[h].player_id,
                              hloc[h].target_team)) =>
            Reported(game[hloc[h].rcon_client], hloc[h].target_team) < 50
     /\ (qpc = "switch" /\ LoopStep
           /\ CommandToward(qloc.client, qloc.item.player_id, qloc.item.target_team)) =>
          Reported(game[qloc.client], qloc.item.target_team) < 50]_vars

\* C24 as claimed: when a cycle goes on to its switch command the player is
\* not on the item's recorded target faction at the resolving backend, and a
\* switch the backend reports as done leaves the player on that faction.
SwitchesOntoTarget ==
  [][/\ (qpc = "gamestate" /\ qpc' = "switch") =>
          CurrentTeam(qloc.client, qloc.item.player_id) # qloc.item.target_team
     /\ (qpc = "switch" /\ LoopStep /\ ~rpc'.raised
           /\ rpc'.result = [result |-> TRUE, failed |-> FALSE]) =>
          TeamOn(game'[qloc.client], qloc.item.player_id) = qloc.item.target_team]_vars

====
